---- MODULE Spec2Model ----
(***************************************************************************)
(* Model of scripts/setup-priority-queues.py: a one-shot provisioner that  *)
(* waits for a RabbitMQ broker, declares three exchanges, the dead-letter  *)
(* queue, six priority queues and their bindings over one pika channel,    *)
(* verifies the queues with passive lookups and exits.                     *)
(*                                                                         *)
(* Every pika call is one atomic step (the calls are blocking request/     *)
(* response exchanges).  The broker is modelled by its AMQP 0-9-1          *)
(* behaviour as pika exposes it to the script: a declare of an existing    *)
(* resource with equal parameters is a no-op, a declare with different     *)
(* parameters is refused (406 PRECONDITION_FAILED), a bind or passive      *)
(* lookup that names a missing resource is refused (404 NOT_FOUND), and    *)
(* every refusal is a channel exception: the broker closes the channel,    *)
(* and each later call on that channel raises on the client without        *)
(* reaching the broker.                                                    *)
(***************************************************************************)
EXTENDS Integers, Sequences, FiniteSets, TLC

VARIABLES
    exchanges,   \* broker: set of [name, type, durable]
    queues,      \* broker: set of [name, durable, arguments]
    bindings,    \* broker: set of [exchange, queue, routing_key]
    pc,          \* per process: position in main()
    attempt,     \* per process: loop variable of wait_for_rabbitmq
    probes,      \* per process: probe connections opened by the current wait
    refusals,    \* per process: probes the broker refused in the current wait
    waitResult,  \* per process: "pending", "ready" or "exhausted"
    i,           \* per process: index of the for loop being executed
    conn,        \* per process: provisioning connection: "none", "open", "closed", "lost"
    chanOpen,    \* per process: its channel is open
    openConns,   \* per process: connections (probe or provisioning) now open
    report,      \* per process: printed outcome per provisioned resource
    vstatus,     \* per process: printed verification status per queue
    vpartial,    \* per process: verify_setup printed its outer warning
    log,         \* per process: the channel calls issued, in order
    exitCode,    \* per process: NoExit while running, then 0 or 1
    faults,      \* broker refusals and connection drops injected so far
    run,         \* number of the current run of the script
    startBroker, \* broker contents when the current run started
    prevRun,     \* outcome of the previous run (report, vstatus, broker)
    cname,       \* classification harness: the queue name, as characters
    cexchange    \* classification harness: the exchange chosen for it

vars == <<exchanges, queues, bindings, pc, attempt, probes, refusals,
          waitResult, i, conn, chanOpen, openConns, report, vstatus,
          vpartial, log, exitCode, faults, run, startBroker, prevRun,
          cname, cexchange>>

-----------------------------------------------------------------------------
(* Bounds of the model *)

\* broker refusals / connection drops injected in one behaviour
MaxFaults == 1
\* consecutive runs of the script in SpecTwice
MaxRuns == 2
\* length of the prefix and suffix put around a test name's middle part
MaxAffixLen == 1

Procs == {1, 2}

-----------------------------------------------------------------------------
(* Static configuration *)

\* max_attempts default of wait_for_rabbitmq
MaxAttempts == 30

PRIORITY_QUEUES ==
       "critical-priority-queue" :> [max_priority |-> 255, ttl |-> 60000, max_length |-> 1000, routing_key |-> "priority.critical"]
    @@ "high-priority-queue" :> [max_priority |-> 200, ttl |-> 300000, max_length |-> 5000, routing_key |-> "priority.high"]
    @@ "normal-priority-queue" :> [max_priority |-> 100, ttl |-> 600000, max_length |-> 10000, routing_key |-> "priority.normal"]
    @@ "low-priority-queue" :> [max_priority |-> 50, ttl |-> 1800000, max_length |-> 20000, routing_key |-> "priority.low"]
    @@ "batch-queue" :> [max_priority |-> 10, ttl |-> 3600000, max_length |-> 50000, routing_key |-> "priority.batch"]
    @@ "anomaly-queue" :> [max_priority |-> 150, ttl |-> 300000, max_length |-> 2000, routing_key |-> "anomaly.detected"]

\* iteration order of PRIORITY_QUEUES.items() (dict insertion order)
QueueOrder ==
    <<"critical-priority-queue", "high-priority-queue", "normal-priority-queue",
      "low-priority-queue", "batch-queue", "anomaly-queue">>

EXCHANGES ==
       "priority-exchange" :> [type |-> "topic", durable |-> TRUE]
    @@ "anomaly-exchange" :> [type |-> "direct", durable |-> TRUE]
    @@ "dlq-exchange" :> [type |-> "direct", durable |-> TRUE]

\* iteration order of EXCHANGES.items()
ExchangeOrder == <<"priority-exchange", "anomaly-exchange", "dlq-exchange">>

DLQ_QUEUE == [name |-> "dlq-queue", durable |-> TRUE, routing_key |-> "failed"]

PriorityNames == DOMAIN PRIORITY_QUEUES
ExchangeNames == DOMAIN EXCHANGES
AllQueueNames == PriorityNames \cup {DLQ_QUEUE.name}
Resources == ExchangeNames \cup AllQueueNames

\* the queue names spelled as character sequences, for the substring test
NameChars ==
       "critical-priority-queue" :> <<"c","r","i","t","i","c","a","l","-","p","r","i","o","r","i","t","y","-","q","u","e","u","e">>
    @@ "high-priority-queue" :> <<"h","i","g","h","-","p","r","i","o","r","i","t","y","-","q","u","e","u","e">>
    @@ "normal-priority-queue" :> <<"n","o","r","m","a","l","-","p","r","i","o","r","i","t","y","-","q","u","e","u","e">>
    @@ "low-priority-queue" :> <<"l","o","w","-","p","r","i","o","r","i","t","y","-","q","u","e","u","e">>
    @@ "batch-queue" :> <<"b","a","t","c","h","-","q","u","e","u","e">>
    @@ "anomaly-queue" :> <<"a","n","o","m","a","l","y","-","q","u","e","u","e">>

Anomaly == <<"a","n","o","m","a","l","y">>

-----------------------------------------------------------------------------
(* Pure helpers of setup_priority_queues *)

\* s[k], s[k+1], ... starts with t
MatchAt(s, t, k) ==
    /\ k + Len(t) - 1 <= Len(s)
    /\ \A j \in 1..Len(t) : s[k + j - 1] = t[j]

RECURSIVE ContainsFrom(_, _, _)
\* left-to-right scan for the first occurrence of t in s at or after k
ContainsFrom(s, t, k) ==
    IF k + Len(t) - 1 > Len(s) THEN FALSE
    ELSE IF MatchAt(s, t, k) THEN TRUE
    ELSE ContainsFrom(s, t, k + 1)

\* faulty variant: a test of the beginning of the name (startswith) instead of `in`
ContainsPrefixOnly(s, t) == MatchAt(s, t, 1)

\* Python's `t in s` on strings
Contains(s, t) == ContainsFrom(s, t, 1)

\* the if/else of lines 166-169, on the characters of the queue name
ClassifyChars(chars) ==
    IF Contains(chars, Anomaly) THEN "anomaly-exchange" ELSE "priority-exchange"

\* the exchange a configured priority queue is bound to
ClassifyQueue(queue_name) == ClassifyChars(NameChars[queue_name])

\* faulty variant: the overflow policy left at the broker's default spelled out
ArgumentsDropHead(config) ==
    { <<"x-max-priority", config.max_priority>>,
      <<"x-message-ttl", config.ttl>>,
      <<"x-max-length", config.max_length>>,
      <<"x-dead-letter-exchange", "dlq-exchange">>,
      <<"x-dead-letter-routing-key", "failed">>,
      <<"x-overflow", "drop-head">> }

\* the arguments dict built for a queue (lines 149-156)
Arguments(config) ==
    { <<"x-max-priority", config.max_priority>>,
      <<"x-message-ttl", config.ttl>>,
      <<"x-max-length", config.max_length>>,
      <<"x-dead-letter-exchange", "dlq-exchange">>,
      <<"x-dead-letter-routing-key", "failed">>,
      <<"x-overflow", "reject-publish">> }

\* queue_declare without arguments (the dead-letter queue)
NoArguments == {}

-----------------------------------------------------------------------------
(* The broker's answers to the channel calls the script makes *)

ExchangeRecord(name, type, durable) ==
    [name |-> name, type |-> type, durable |-> durable]

QueueRecord(name, durable, arguments) ==
    [name |-> name, durable |-> durable, arguments |-> arguments]

BindingRecord(exchange, queue, routing_key) ==
    [exchange |-> exchange, queue |-> queue, routing_key |-> routing_key]

ExchangeExists(exs, name) == \E e \in exs : e.name = name
QueueExists(qs, name) == \E q \in qs : q.name = name

\* channel.exchange_declare(exchange, exchange_type, durable)
ExchangeDeclareAnswer(exs, name, type, durable) ==
    IF ExchangeExists(exs, name) /\ ExchangeRecord(name, type, durable) \notin exs
    THEN "precondition_failed" ELSE "ok"

ExchangeDeclareEffect(exs, name, type, durable) ==
    IF ExchangeExists(exs, name) THEN exs
    ELSE exs \cup {ExchangeRecord(name, type, durable)}

\* faulty variant: the queue declared for one connection only (exclusive=True), so a
\* declare of a queue that another instance created is refused
QueueDeclareAnswerExclusive(qs, name, durable, arguments) ==
    IF QueueExists(qs, name) THEN "resource_locked" ELSE "ok"

\* channel.queue_declare(queue, durable, arguments)
QueueDeclareAnswer(qs, name, durable, arguments) ==
    IF QueueExists(qs, name) /\ QueueRecord(name, durable, arguments) \notin qs
    THEN "precondition_failed" ELSE "ok"

QueueDeclareEffect(qs, name, durable, arguments) ==
    IF QueueExists(qs, name) THEN qs
    ELSE qs \cup {QueueRecord(name, durable, arguments)}

\* channel.queue_bind(exchange, queue, routing_key)
QueueBindAnswer(exs, qs, exchange, queue) ==
    IF ExchangeExists(exs, exchange) /\ QueueExists(qs, queue)
    THEN "ok" ELSE "not_found"

QueueBindEffect(bs, exchange, queue, routing_key) ==
    bs \cup {BindingRecord(exchange, queue, routing_key)}

\* channel.queue_declare(queue, passive=True)
PassiveAnswer(qs, name) ==
    IF QueueExists(qs, name) THEN "ok" ELSE "not_found"

\* faulty variant: the lookup made without passive=True, so that a queue that
\* is missing is created (durable=False, no arguments)
PassiveEffectCreates(qs, name) == QueueDeclareEffect(qs, name, FALSE, NoArguments)

\* what a passive queue_declare leaves on the broker: passive=True never
\* creates the queue
PassiveEffect(qs, name) == qs

\* channel.queue_declare(queue='', passive=True, exclusive=True): the empty
\* name is no configured queue; brokers differ in whether they resolve it to
\* the channel's last declared queue or answer NOT_FOUND
TmpLookupAnswers == {"ok", "not_found"}

\* What one channel call returns to the script: a closed channel raises on
\* the client, an injected refusal or a broker error closes the channel.
Outcome(open, refuse, answer) ==
    IF ~open THEN "channel_closed"
    ELSE IF refuse THEN "refused"
    ELSE answer

\* whether the broker may be made to refuse the next call of process p
RefuseChoices(p) ==
    IF chanOpen[p] /\ faults < MaxFaults THEN {FALSE, TRUE} ELSE {FALSE}

CallRecord(op, name, exchange, key, out) ==
    [op |-> op, name |-> name, exchange |-> exchange, key |-> key, out |-> out]

Broker == <<exchanges, queues, bindings>>

-----------------------------------------------------------------------------
(* Initial states *)

\* value of exitCode while main() has not called sys.exit or returned
NoExit == -1

NoReport == [r \in Resources |-> "none"]
NoStatus == [q \in AllQueueNames |-> "none"]

\* arguments left on a queue by an older configuration
StaleArguments == { <<"x-max-priority", 5>> }

\* a queue of that name already on the broker with other arguments
ConflictingQueue(name) == QueueRecord(name, TRUE, StaleArguments)

\* an exchange of that name already on the broker with the other type
ConflictingExchange(name) ==
    ExchangeRecord(name, IF EXCHANGES[name].type = "topic" THEN "direct" ELSE "topic", TRUE)

\* broker contents a run may start from: nothing, or one resource in the way
InitQueueSets == {{}} \cup { {ConflictingQueue(n)} : n \in AllQueueNames }
InitExchangeSets == {{}} \cup { {ConflictingExchange(n)} : n \in ExchangeNames }

\* the process state at the first line of main(), for the processes in `active`
InitProcesses(active) ==
    /\ pc = [p \in Procs |-> IF p \in active THEN "wait" ELSE "off"]
    /\ attempt = [p \in Procs |-> 0]
    /\ probes = [p \in Procs |-> 0]
    /\ refusals = [p \in Procs |-> 0]
    /\ waitResult = [p \in Procs |-> "pending"]
    /\ i = [p \in Procs |-> 1]
    /\ conn = [p \in Procs |-> "none"]
    /\ chanOpen = [p \in Procs |-> FALSE]
    /\ openConns = [p \in Procs |-> 0]
    /\ report = [p \in Procs |-> NoReport]
    /\ vstatus = [p \in Procs |-> NoStatus]
    /\ vpartial = [p \in Procs |-> FALSE]
    /\ log = [p \in Procs |-> <<>>]
    /\ exitCode = [p \in Procs |-> NoExit]
    /\ run = 1
    /\ prevRun = [report |-> NoReport, vstatus |-> NoStatus, exitCode |-> NoExit,
                  broker |-> <<{}, {}, {}>>]

NoHarness == cname = <<>> /\ cexchange = "none"

\* one run of the script against a broker that may hold a conflicting resource
Init ==
    /\ exchanges \in InitExchangeSets
    /\ queues \in InitQueueSets
    /\ bindings = {}
    /\ startBroker = Broker
    /\ faults = 0
    /\ InitProcesses({1})
    /\ NoHarness

-----------------------------------------------------------------------------
(* wait_for_rabbitmq and the start of main() *)

\* faulty variant: the loop gives up one attempt early (range(max_attempts - 1))
LoopOverEarly(a) == a >= MaxAttempts - 1

\* the for loop of wait_for_rabbitmq is over once `a` attempts were made
LoopOver(a) == a >= MaxAttempts

\* lines 94-97: the probe connection opens, is closed again, return True
ProbeOk(p) ==
    /\ pc[p] = "wait"
    /\ ~LoopOver(attempt[p])
    /\ probes' = [probes EXCEPT ![p] = @ + 1]
    /\ waitResult' = [waitResult EXCEPT ![p] = "ready"]
    /\ pc' = [pc EXCEPT ![p] = "waited"]
    /\ UNCHANGED <<exchanges, queues, bindings, attempt, refusals, i, conn,
                   chanOpen, openConns, report, vstatus, vpartial, log, exitCode,
                   faults, run, startBroker, prevRun, cname, cexchange>>

\* lines 94, 98-100: BlockingConnection raises, sleep, next attempt;
\* lines 102-103 once the loop is over: return False
ProbeRefused(p) ==
    /\ pc[p] = "wait"
    /\ ~LoopOver(attempt[p])
    /\ probes' = [probes EXCEPT ![p] = @ + 1]
    /\ refusals' = [refusals EXCEPT ![p] = @ + 1]
    /\ attempt' = [attempt EXCEPT ![p] = @ + 1]
    /\ IF LoopOver(attempt[p] + 1)
       THEN /\ waitResult' = [waitResult EXCEPT ![p] = "exhausted"]
            /\ pc' = [pc EXCEPT ![p] = "waited"]
       ELSE UNCHANGED <<waitResult, pc>>
    /\ UNCHANGED <<exchanges, queues, bindings, i, conn, chanOpen, openConns,
                   report, vstatus, vpartial, log, exitCode, faults, run,
                   startBroker, prevRun, cname, cexchange>>

\* faulty variant: main() calls wait_for_rabbitmq and ignores what it returns
AfterWaitIgnored(result) == "connect"

\* faulty variant: main() starts waiting again when the broker did not answer
AfterWaitRetry(result) == IF result = "ready" THEN "connect" ELSE "wait"

\* where main() goes with the result of wait_for_rabbitmq (lines 227-228)
AfterWait(result) == IF result = "ready" THEN "connect" ELSE "exited"

\* lines 227-228: if not wait_for_rabbitmq(): sys.exit(1)
MainAfterWait(p) ==
    /\ pc[p] = "waited"
    /\ pc' = [pc EXCEPT ![p] = AfterWait(waitResult[p])]
    /\ exitCode' = [exitCode EXCEPT ![p] =
                        IF AfterWait(waitResult[p]) = "exited" THEN 1 ELSE @]
    /\ attempt' = [attempt EXCEPT ![p] = 0]
    /\ probes' = [probes EXCEPT ![p] = 0]
    /\ refusals' = [refusals EXCEPT ![p] = 0]
    /\ UNCHANGED <<exchanges, queues, bindings, waitResult, i, conn, chanOpen,
                   openConns, report, vstatus, vpartial, log, faults, run,
                   startBroker, prevRun, cname, cexchange>>

\* lines 240-241: the provisioning connection and its channel open
ConnectOk(p) ==
    /\ pc[p] = "connect"
    /\ conn' = [conn EXCEPT ![p] = "open"]
    /\ chanOpen' = [chanOpen EXCEPT ![p] = TRUE]
    /\ openConns' = [openConns EXCEPT ![p] = @ + 1]
    /\ i' = [i EXCEPT ![p] = 1]
    /\ pc' = [pc EXCEPT ![p] = "setup_exchanges"]
    /\ UNCHANGED <<exchanges, queues, bindings, attempt, probes, refusals,
                   waitResult, report, vstatus, vpartial, log, exitCode, faults,
                   run, startBroker, prevRun, cname, cexchange>>

\* line 240 raises (the broker went away after the probe): lines 259-261
ConnectFail(p) ==
    /\ pc[p] = "connect"
    /\ pc' = [pc EXCEPT ![p] = "exited"]
    /\ exitCode' = [exitCode EXCEPT ![p] = 1]
    /\ UNCHANGED <<exchanges, queues, bindings, attempt, probes, refusals,
                   waitResult, i, conn, chanOpen, openConns, report, vstatus,
                   vpartial, log, faults, run, startBroker, prevRun, cname,
                   cexchange>>

\* line 241 raises after line 240 opened the connection: lines 259-261 exit
\* without closing it
ChannelFail(p) ==
    /\ pc[p] = "connect"
    /\ conn' = [conn EXCEPT ![p] = "open"]
    /\ openConns' = [openConns EXCEPT ![p] = @ + 1]
    /\ pc' = [pc EXCEPT ![p] = "exited"]
    /\ exitCode' = [exitCode EXCEPT ![p] = 1]
    /\ UNCHANGED <<exchanges, queues, bindings, attempt, probes, refusals,
                   waitResult, i, chanOpen, report, vstatus, vpartial,
                   log, faults, run, startBroker, prevRun, cname, cexchange>>

\* positions of main() at which the provisioning connection is in use
Connected == {"setup_exchanges", "dlq_declare", "dlq_bind", "pq_declare",
              "pq_bind", "verify_tmp", "verify_pq", "verify_dlq", "close"}

\* the broker connection is lost between two calls
ConnectionDrop(p) ==
    /\ pc[p] \in Connected
    /\ conn[p] = "open"
    /\ faults < MaxFaults
    /\ faults' = faults + 1
    /\ conn' = [conn EXCEPT ![p] = "lost"]
    /\ chanOpen' = [chanOpen EXCEPT ![p] = FALSE]
    /\ openConns' = [openConns EXCEPT ![p] = @ - 1]
    /\ UNCHANGED <<exchanges, queues, bindings, pc, attempt, probes, refusals,
                   waitResult, i, report, vstatus, vpartial, log, exitCode, run,
                   startBroker, prevRun, cname, cexchange>>

-----------------------------------------------------------------------------
(* setup_exchanges, setup_dlq, setup_priority_queues *)

\* the channel after a call: any error answer is a channel exception
ChanAfter(open, out) == open /\ out = "ok"

\* faulty variant: the success line printed in the except branch as well
PrintedAlwaysOk(out) == "ok"

\* the line printed after the last call of a try block (lines 116-118,
\* 138-140, 177-180)
Printed(out) == IF out = "ok" THEN "ok" ELSE "fail"

\* faulty variant: setup_priority_queues called before setup_dlq
StageAfterSwapped(stage) ==
    CASE stage = "setup_exchanges" -> "pq_declare"
      [] stage = "setup_priority_queues" -> "dlq_declare"
      [] stage = "setup_dlq" -> "verify_tmp"
      [] stage = "verify_setup" -> "close"

\* the order of the setup steps in main() (lines 244-250): where control is
\* when the given step has returned
StageAfter(stage) ==
    CASE stage = "setup_exchanges" -> "dlq_declare"
      [] stage = "setup_dlq" -> "pq_declare"
      [] stage = "setup_priority_queues" -> "verify_tmp"
      [] stage = "verify_setup" -> "close"

\* one iteration of the loop of setup_exchanges (lines 109-118)
DeclareExchange(p) ==
    /\ pc[p] = "setup_exchanges"
    /\ \E refuse \in RefuseChoices(p) :
         LET name == ExchangeOrder[i[p]]
             config == EXCHANGES[name]
             out == Outcome(chanOpen[p], refuse,
                        ExchangeDeclareAnswer(exchanges, name, config.type, config.durable))
         IN  /\ exchanges' = IF out = "ok"
                             THEN ExchangeDeclareEffect(exchanges, name, config.type, config.durable)
                             ELSE exchanges
             /\ chanOpen' = [chanOpen EXCEPT ![p] = ChanAfter(@, out)]
             /\ faults' = IF refuse THEN faults + 1 ELSE faults
             /\ report' = [report EXCEPT ![p][name] = Printed(out)]
             /\ log' = [log EXCEPT ![p] =
                           Append(@, CallRecord("exchange_declare", name, name, "", out))]
    /\ IF i[p] = Len(ExchangeOrder)
       THEN /\ pc' = [pc EXCEPT ![p] = StageAfter("setup_exchanges")]
            /\ i' = [i EXCEPT ![p] = 1]
       ELSE /\ pc' = pc
            /\ i' = [i EXCEPT ![p] = @ + 1]
    /\ UNCHANGED <<queues, bindings, attempt, probes, refusals, waitResult,
                   conn, openConns, vstatus, vpartial, exitCode, run,
                   startBroker, prevRun, cname, cexchange>>

\* faulty variant: the declare in a try block of its own, so that the bind is
\* made whatever the declare did
AfterDeclareAlwaysBind(out) == "bind"

\* declare and bind share one try block (lines 124-140, 147-180): an
\* exception of the declare skips the bind
AfterDeclare(out) == IF out = "ok" THEN "bind" ELSE "skip"

\* setup_dlq, lines 126-129: declare the dead-letter queue; an exception
\* skips the bind and prints the failure (lines 139-140)
DlqDeclare(p) ==
    /\ pc[p] = "dlq_declare"
    /\ \E refuse \in RefuseChoices(p) :
         LET name == DLQ_QUEUE.name
             out == Outcome(chanOpen[p], refuse,
                        QueueDeclareAnswer(queues, name, DLQ_QUEUE.durable, NoArguments))
         IN  /\ queues' = IF out = "ok"
                          THEN QueueDeclareEffect(queues, name, DLQ_QUEUE.durable, NoArguments)
                          ELSE queues
             /\ chanOpen' = [chanOpen EXCEPT ![p] = ChanAfter(@, out)]
             /\ faults' = IF refuse THEN faults + 1 ELSE faults
             /\ report' = IF AfterDeclare(out) = "bind" THEN report
                          ELSE [report EXCEPT ![p][name] = "fail"]
             /\ log' = [log EXCEPT ![p] =
                           Append(@, CallRecord("queue_declare", name, "", "", out))]
             /\ pc' = [pc EXCEPT ![p] = IF AfterDeclare(out) = "bind" THEN "dlq_bind"
                                        ELSE StageAfter("setup_dlq")]
    /\ UNCHANGED <<exchanges, bindings, attempt, probes, refusals, waitResult, i,
                   conn, openConns, vstatus, vpartial, exitCode, run,
                   startBroker, prevRun, cname, cexchange>>

\* faulty variant: the dead-letter queue bound like a priority queue
DlqExchangeWrong == "priority-exchange"

\* the exchange named in the bind call of setup_dlq (line 133)
DlqExchange == "dlq-exchange"

\* setup_dlq, lines 132-140: bind the dead-letter queue and print the result
DlqBind(p) ==
    /\ pc[p] = "dlq_bind"
    /\ \E refuse \in RefuseChoices(p) :
         LET name == DLQ_QUEUE.name
             out == Outcome(chanOpen[p], refuse,
                        QueueBindAnswer(exchanges, queues, DlqExchange, name))
         IN  /\ bindings' = IF out = "ok"
                            THEN QueueBindEffect(bindings, DlqExchange, name, DLQ_QUEUE.routing_key)
                            ELSE bindings
             /\ chanOpen' = [chanOpen EXCEPT ![p] = ChanAfter(@, out)]
             /\ faults' = IF refuse THEN faults + 1 ELSE faults
             /\ report' = [report EXCEPT ![p][name] = Printed(out)]
             /\ log' = [log EXCEPT ![p] =
                           Append(@, CallRecord("queue_bind", name, DlqExchange,
                                                DLQ_QUEUE.routing_key, out))]
    /\ pc' = [pc EXCEPT ![p] = StageAfter("setup_dlq")]
    /\ UNCHANGED <<exchanges, queues, attempt, probes, refusals, waitResult, i,
                   conn, openConns, vstatus, vpartial, exitCode, run,
                   startBroker, prevRun, cname, cexchange>>

\* the loop of setup_priority_queues moves to its next queue, or returns
NextQueue(p) ==
    IF i[p] = Len(QueueOrder)
    THEN /\ pc' = [pc EXCEPT ![p] = StageAfter("setup_priority_queues")]
         /\ i' = [i EXCEPT ![p] = 1]
    ELSE /\ pc' = [pc EXCEPT ![p] = "pq_declare"]
         /\ i' = [i EXCEPT ![p] = @ + 1]

\* setup_priority_queues, lines 149-163: build the arguments and declare the
\* queue; an exception prints the failure and the loop goes on (179-180)
PqDeclare(p) ==
    /\ pc[p] = "pq_declare"
    /\ \E refuse \in RefuseChoices(p) :
         LET name == QueueOrder[i[p]]
             arguments == Arguments(PRIORITY_QUEUES[name])
             out == Outcome(chanOpen[p], refuse,
                        QueueDeclareAnswer(queues, name, TRUE, arguments))
         IN  /\ queues' = IF out = "ok"
                          THEN QueueDeclareEffect(queues, name, TRUE, arguments)
                          ELSE queues
             /\ chanOpen' = [chanOpen EXCEPT ![p] = ChanAfter(@, out)]
             /\ faults' = IF refuse THEN faults + 1 ELSE faults
             /\ log' = [log EXCEPT ![p] =
                           Append(@, CallRecord("queue_declare", name, "", "", out))]
             /\ IF AfterDeclare(out) = "bind"
                THEN /\ pc' = [pc EXCEPT ![p] = "pq_bind"]
                     /\ UNCHANGED <<i, report>>
                ELSE /\ report' = [report EXCEPT ![p][name] = "fail"]
                     /\ NextQueue(p)
    /\ UNCHANGED <<exchanges, bindings, attempt, probes, refusals, waitResult,
                   conn, openConns, vstatus, vpartial, exitCode, run,
                   startBroker, prevRun, cname, cexchange>>

\* faulty variant: the bind names the queue of the previous iteration
BoundQueuePrevious(k) == QueueOrder[IF k = 1 THEN 1 ELSE k - 1]

\* the queue named in the bind call of iteration k (line 173)
BoundQueue(k) == QueueOrder[k]

\* setup_priority_queues, lines 166-180: choose the exchange, bind the queue
\* and print the result
PqBind(p) ==
    /\ pc[p] = "pq_bind"
    /\ \E refuse \in RefuseChoices(p) :
         LET name == BoundQueue(i[p])
             exchange == ClassifyQueue(name)
             key == PRIORITY_QUEUES[name].routing_key
             out == Outcome(chanOpen[p], refuse,
                        QueueBindAnswer(exchanges, queues, exchange, name))
         IN  /\ bindings' = IF out = "ok"
                            THEN QueueBindEffect(bindings, exchange, name, key)
                            ELSE bindings
             /\ chanOpen' = [chanOpen EXCEPT ![p] = ChanAfter(@, out)]
             /\ faults' = IF refuse THEN faults + 1 ELSE faults
             /\ report' = [report EXCEPT ![p][name] = Printed(out)]
             /\ log' = [log EXCEPT ![p] =
                           Append(@, CallRecord("queue_bind", name, exchange, key, out))]
    /\ NextQueue(p)
    /\ UNCHANGED <<exchanges, queues, attempt, probes, refusals, waitResult,
                   conn, openConns, vstatus, vpartial, exitCode, run,
                   startBroker, prevRun, cname, cexchange>>

-----------------------------------------------------------------------------
(* verify_setup and the end of main() *)

VerifyPrinted(out) == IF out = "ok" THEN "OK" ELSE "BULUNAMADI"

\* line 188: the passive lookup of the empty name; an exception leaves the
\* outer try for lines 205-206 and no queue is checked
VerifyTmp(p) ==
    /\ pc[p] = "verify_tmp"
    /\ \E answer \in TmpLookupAnswers :
         LET out == Outcome(chanOpen[p], FALSE, answer)
         IN  /\ chanOpen' = [chanOpen EXCEPT ![p] = ChanAfter(@, out)]
             /\ log' = [log EXCEPT ![p] =
                           Append(@, CallRecord("passive", "", "", "", out))]
             /\ queues' = IF out = "channel_closed" THEN queues
                          ELSE PassiveEffect(queues, "")
             /\ vpartial' = [vpartial EXCEPT ![p] = (out # "ok")]
             /\ pc' = [pc EXCEPT ![p] = IF out = "ok" THEN "verify_pq"
                                        ELSE StageAfter("verify_setup")]
    /\ i' = [i EXCEPT ![p] = 1]
    /\ UNCHANGED <<exchanges, bindings, attempt, probes, refusals,
                   waitResult, conn, openConns, report, vstatus, exitCode,
                   faults, run, startBroker, prevRun, cname, cexchange>>

\* lines 191-196: one iteration of the loop over the priority queues
VerifyPq(p) ==
    /\ pc[p] = "verify_pq"
    /\ LET name == QueueOrder[i[p]]
           out == Outcome(chanOpen[p], FALSE, PassiveAnswer(queues, name))
       IN  /\ chanOpen' = [chanOpen EXCEPT ![p] = ChanAfter(@, out)]
           /\ queues' = IF out = "channel_closed" THEN queues
                        ELSE PassiveEffect(queues, name)
           /\ vstatus' = [vstatus EXCEPT ![p][name] = VerifyPrinted(out)]
           /\ log' = [log EXCEPT ![p] =
                         Append(@, CallRecord("passive", name, "", "", out))]
    /\ IF i[p] = Len(QueueOrder)
       THEN /\ pc' = [pc EXCEPT ![p] = "verify_dlq"]
            /\ i' = [i EXCEPT ![p] = 1]
       ELSE /\ pc' = pc
            /\ i' = [i EXCEPT ![p] = @ + 1]
    /\ UNCHANGED <<exchanges, bindings, attempt, probes, refusals,
                   waitResult, conn, openConns, report, vpartial, exitCode,
                   faults, run, startBroker, prevRun, cname, cexchange>>

\* lines 199-203: the lookup of the dead-letter queue
VerifyDlq(p) ==
    /\ pc[p] = "verify_dlq"
    /\ LET name == DLQ_QUEUE.name
           out == Outcome(chanOpen[p], FALSE, PassiveAnswer(queues, name))
       IN  /\ chanOpen' = [chanOpen EXCEPT ![p] = ChanAfter(@, out)]
           /\ queues' = IF out = "channel_closed" THEN queues
                        ELSE PassiveEffect(queues, name)
           /\ vstatus' = [vstatus EXCEPT ![p][name] = VerifyPrinted(out)]
           /\ log' = [log EXCEPT ![p] =
                         Append(@, CallRecord("passive", name, "", "", out))]
    /\ pc' = [pc EXCEPT ![p] = StageAfter("verify_setup")]
    /\ UNCHANGED <<exchanges, bindings, attempt, probes, refusals,
                   waitResult, i, conn, openConns, report, vpartial, exitCode,
                   faults, run, startBroker, prevRun, cname, cexchange>>

\* faulty variant: an error of connection.close() is swallowed
CloseExitSwallowed(state) == 0

\* the exit code main() ends with: connection.close() (line 250) raises on a
\* connection that is no longer open, and lines 259-261 exit with 1
CloseExit(state) == IF state = "open" THEN 0 ELSE 1

\* lines 250-261
Close(p) ==
    /\ pc[p] = "close"
    /\ exitCode' = [exitCode EXCEPT ![p] = CloseExit(conn[p])]
    /\ openConns' = [openConns EXCEPT ![p] = IF conn[p] = "open" THEN @ - 1 ELSE @]
    /\ conn' = [conn EXCEPT ![p] = IF @ = "open" THEN "closed" ELSE @]
    /\ chanOpen' = [chanOpen EXCEPT ![p] = FALSE]
    /\ pc' = [pc EXCEPT ![p] = "exited"]
    /\ UNCHANGED <<exchanges, queues, bindings, attempt, probes, refusals,
                   waitResult, i, report, vstatus, vpartial, log, faults, run,
                   startBroker, prevRun, cname, cexchange>>

\* the script is started again after it has exited
Rerun(p) ==
    /\ pc[p] = "exited"
    /\ run < MaxRuns
    /\ run' = run + 1
    /\ prevRun' = [report |-> report[p], vstatus |-> vstatus[p],
                   exitCode |-> exitCode[p], broker |-> Broker]
    /\ startBroker' = Broker
    /\ pc' = [pc EXCEPT ![p] = "wait"]
    /\ waitResult' = [waitResult EXCEPT ![p] = "pending"]
    /\ report' = [report EXCEPT ![p] = NoReport]
    /\ vstatus' = [vstatus EXCEPT ![p] = NoStatus]
    /\ vpartial' = [vpartial EXCEPT ![p] = FALSE]
    /\ log' = [log EXCEPT ![p] = <<>>]
    /\ exitCode' = [exitCode EXCEPT ![p] = NoExit]
    /\ openConns' = [openConns EXCEPT ![p] = 0]
    /\ conn' = [conn EXCEPT ![p] = "none"]
    /\ UNCHANGED <<exchanges, queues, bindings, attempt, probes, refusals, i,
                   chanOpen, faults, cname, cexchange>>

-----------------------------------------------------------------------------
(* Specifications *)

Next ==
    \E p \in Procs :
        \/ ProbeOk(p)
        \/ ProbeRefused(p)
        \/ MainAfterWait(p)
        \/ ConnectOk(p)
        \/ ConnectFail(p)
        \/ ChannelFail(p)
        \/ ConnectionDrop(p)
        \/ DeclareExchange(p)
        \/ DlqDeclare(p)
        \/ DlqBind(p)
        \/ PqDeclare(p)
        \/ PqBind(p)
        \/ VerifyTmp(p)
        \/ VerifyPq(p)
        \/ VerifyDlq(p)
        \/ Close(p)

Spec == Init /\ [][Next]_vars

\* one run in which every broker call returns: main() is sequential code, a
\* step that can be taken is taken
SpecLive == Init /\ [][Next]_vars /\ WF_vars(Next)

\* two runs of the script, one after the other, against a broker that starts
\* empty and never refuses
InitTwice ==
    /\ exchanges = {}
    /\ queues = {}
    /\ bindings = {}
    /\ startBroker = Broker
    /\ faults = MaxFaults
    /\ InitProcesses({1})
    /\ NoHarness

NextTwice ==
    \E p \in Procs :
        \/ ProbeOk(p)
        \/ ProbeRefused(p)
        \/ MainAfterWait(p)
        \/ ConnectOk(p)
        \/ DeclareExchange(p)
        \/ DlqDeclare(p)
        \/ DlqBind(p)
        \/ PqDeclare(p)
        \/ PqBind(p)
        \/ VerifyTmp(p)
        \/ VerifyPq(p)
        \/ VerifyDlq(p)
        \/ Close(p)
        \/ Rerun(p)

SpecTwice == InitTwice /\ [][NextTwice]_vars

\* two instances of the script started against the same empty broker, which
\* is up and never refuses
InitConc ==
    /\ exchanges = {}
    /\ queues = {}
    /\ bindings = {}
    /\ startBroker = Broker
    /\ faults = MaxFaults
    /\ InitProcesses(Procs)
    /\ NoHarness

NextConc ==
    \E p \in Procs :
        \/ ProbeOk(p)
        \/ MainAfterWait(p)
        \/ ConnectOk(p)
        \/ DeclareExchange(p)
        \/ DlqDeclare(p)
        \/ DlqBind(p)
        \/ PqDeclare(p)
        \/ PqBind(p)
        \/ VerifyTmp(p)
        \/ VerifyPq(p)
        \/ VerifyDlq(p)
        \/ Close(p)

SpecConc == InitConc /\ [][NextConc]_vars

-----------------------------------------------------------------------------
(* Harness for the routing classification as a function of the queue name *)

Letters == {"a", "y", "A", "-"}

RECURSIVE SeqsUpTo(_, _)
\* all sequences over S of length at most n
SeqsUpTo(S, n) ==
    IF n = 0 THEN {<<>>}
    ELSE LET shorter == SeqsUpTo(S, n - 1)
         IN  shorter \cup { Append(t, c) : t \in shorter, c \in S }

Affixes == SeqsUpTo(Letters, MaxAffixLen)

\* the word, near misses of it, and other capitalisations
Middles ==
    { <<>>,
      <<"a","n","o","m","a","l","y">>,
      <<"A","n","o","m","a","l","y">>,
      <<"a","n","o","m","a","l","Y">>,
      <<"A","N","O","M","A","L","Y">>,
      <<"a","n","o","m","a","l">>,
      <<"n","o","m","a","l","y">>,
      <<"a","n","o","m","l","y">>,
      <<"a","n","o","m","a","-","l","y">>,
      <<"a","n","o","a","n","o","m","a","l","y">>,
      <<"a","n","o","m","a","l","a","n","o","m","a","l","y">>,
      <<"y","l","a","m","o","n","a">> }

TestNames ==
    { NameChars[n] : n \in PriorityNames }
        \cup { pre \o mid \o suf : pre \in Affixes, mid \in Middles, suf \in Affixes }

InitClassify ==
    /\ exchanges = {}
    /\ queues = {}
    /\ bindings = {}
    /\ startBroker = Broker
    /\ faults = 0
    /\ InitProcesses({})
    /\ cname \in TestNames
    /\ cexchange = "none"

\* lines 166-169 applied to the name
Classify ==
    /\ cexchange = "none"
    /\ cexchange' = ClassifyChars(cname)
    /\ UNCHANGED <<exchanges, queues, bindings, pc, attempt, probes, refusals,
                   waitResult, i, conn, chanOpen, openConns, report, vstatus,
                   vpartial, log, exitCode, faults, run, startBroker, prevRun,
                   cname>>

SpecClassify == InitClassify /\ [][Classify]_vars

-----------------------------------------------------------------------------
(* Properties *)

\* setup_priority_queues has returned in process p
Provisioned(p) ==
    \/ pc[p] \in {"verify_tmp", "verify_pq", "verify_dlq", "close"}
    \/ pc[p] = "exited" /\ log[p] # <<>>

\* verify_setup has returned in process p
Verified(p) ==
    \/ pc[p] = "close"
    \/ pc[p] = "exited" /\ log[p] # <<>>

EmptyBroker == <<{}, {}, {}>>

AllSuccess(rep) == \A r \in Resources : rep[r] = "ok"
AllPresent(vs) == \A q \in AllQueueNames : vs[q] = "OK"

\* positions in the log of process p of the calls with that operation and name
Calls(p, op, name) ==
    { k \in 1..Len(log[p]) : log[p][k].op = op /\ log[p][k].name = name }

\* the topology table of the specification, written out
TableArguments(priority, ttl, length) ==
    { <<"x-max-priority", priority>>, <<"x-message-ttl", ttl>>,
      <<"x-max-length", length>>, <<"x-dead-letter-exchange", "dlq-exchange">>,
      <<"x-dead-letter-routing-key", "failed">>, <<"x-overflow", "reject-publish">> }

TableExchanges ==
    { [name |-> "priority-exchange", type |-> "topic", durable |-> TRUE],
      [name |-> "anomaly-exchange", type |-> "direct", durable |-> TRUE],
      [name |-> "dlq-exchange", type |-> "direct", durable |-> TRUE] }

TableQueues ==
    { [name |-> "critical-priority-queue", durable |-> TRUE, arguments |-> TableArguments(255, 60000, 1000)],
      [name |-> "high-priority-queue", durable |-> TRUE, arguments |-> TableArguments(200, 300000, 5000)],
      [name |-> "normal-priority-queue", durable |-> TRUE, arguments |-> TableArguments(100, 600000, 10000)],
      [name |-> "low-priority-queue", durable |-> TRUE, arguments |-> TableArguments(50, 1800000, 20000)],
      [name |-> "batch-queue", durable |-> TRUE, arguments |-> TableArguments(10, 3600000, 50000)],
      [name |-> "anomaly-queue", durable |-> TRUE, arguments |-> TableArguments(150, 300000, 2000)],
      [name |-> "dlq-queue", durable |-> TRUE, arguments |-> {}] }

TableBindings ==
    { [exchange |-> "priority-exchange", queue |-> "critical-priority-queue", routing_key |-> "priority.critical"],
      [exchange |-> "priority-exchange", queue |-> "high-priority-queue", routing_key |-> "priority.high"],
      [exchange |-> "priority-exchange", queue |-> "normal-priority-queue", routing_key |-> "priority.normal"],
      [exchange |-> "priority-exchange", queue |-> "low-priority-queue", routing_key |-> "priority.low"],
      [exchange |-> "priority-exchange", queue |-> "batch-queue", routing_key |-> "priority.batch"],
      [exchange |-> "anomaly-exchange", queue |-> "anomaly-queue", routing_key |-> "anomaly.detected"],
      [exchange |-> "dlq-exchange", queue |-> "dlq-queue", routing_key |-> "failed"] }

\* C1: Partial-failure isolation.  In a run whose only failure cause is one
\* priority queue q already on the broker with other arguments (its declare
\* is answered with a conflict), once setup_priority_queues has returned every
\* other priority queue is reported as created, is on the broker with its
\* configured arguments and is bound, q alone is reported failed, and the run
\* does not end with a non-zero exit code.
C1_PartialFailureIsolation ==
    \A p \in Procs : \A q \in PriorityNames :
        (/\ Provisioned(p)
         /\ faults = 0
         /\ startBroker = <<{}, {ConflictingQueue(q)}, {}>>)
        => /\ report[p][q] = "fail"
           /\ \A o \in PriorityNames \ {q} :
                /\ report[p][o] = "ok"
                /\ QueueRecord(o, TRUE, TableArguments(PRIORITY_QUEUES[o].max_priority,
                        PRIORITY_QUEUES[o].ttl, PRIORITY_QUEUES[o].max_length)) \in queues
                /\ \E b \in bindings : b.queue = o
           /\ (pc[p] = "exited" => exitCode[p] = 0)

\* C2: Gating.  No channel call is issued and no provisioning connection is
\* opened unless wait_for_rabbitmq reported ready in this run; when all
\* MaxAttempts probes failed the process goes nowhere but to its exit, the
\* exit code is 1 and the broker holds what it held when the run started.
C2_Gating ==
    \A p \in Procs :
        /\ (log[p] # <<>> \/ conn[p] # "none") => waitResult[p] = "ready"
        /\ waitResult[p] = "exhausted"
             => /\ pc[p] \in {"waited", "exited"}
                /\ Broker = startBroker
                /\ (pc[p] = "exited" => exitCode[p] = 1)

\* C2 witness: a run that exhausted its probes has exited, against a broker
\* that held a queue.
C2_Witness ==
    /\ pc[1] = "exited"
    /\ waitResult[1] = "exhausted"
    /\ queues # {}

\* C3: Readiness bound.  While waiting, every probe so far was refused and
\* fewer than MaxAttempts were made, so the next probe is issued and, if
\* accepted, reports ready; ready is reported after exactly refusals + 1
\* probes, exhaustion after exactly MaxAttempts probes all of which were
\* refused, and never is a probe issued beyond MaxAttempts.
C3_ReadinessBound ==
    \A p \in Procs :
        /\ probes[p] <= MaxAttempts
        /\ pc[p] = "wait"
             => /\ probes[p] = refusals[p]
                /\ refusals[p] < MaxAttempts
                /\ ENABLED ProbeOk(p)
        /\ (pc[p] = "waited" /\ waitResult[p] = "ready")
             => /\ probes[p] = refusals[p] + 1
                /\ refusals[p] < MaxAttempts
        /\ (pc[p] = "waited" /\ waitResult[p] = "exhausted")
             => /\ probes[p] = MaxAttempts
                /\ refusals[p] = MaxAttempts

\* C3 witness: ready is reported on the last probe the loop allows.
C3_Witness ==
    /\ pc[1] = "waited"
    /\ waitResult[1] = "ready"
    /\ refusals[1] = MaxAttempts - 1
    /\ probes[1] = MaxAttempts

\* C4: Idempotence.  When the script has completed twice in sequence against
\* a broker that started empty and never refused, both runs reported every
\* resource as created and every queue as present, and the broker holds after
\* the second run what it held after the first.
C4_Idempotence ==
    (/\ run = 2
     /\ pc[1] = "exited"
     /\ exitCode[1] = 0
     /\ prevRun.exitCode = 0)
    => /\ AllSuccess(prevRun.report)
       /\ AllSuccess(report[1])
       /\ AllPresent(prevRun.vstatus)
       /\ AllPresent(vstatus[1])
       /\ Broker = prevRun.broker

\* C5: Fixed topology.  After a run that started on an empty broker and
\* reported every resource as created, the broker holds exactly the three
\* exchanges, the seven queues (each priority queue with exactly its six
\* arguments) and the seven bindings of the topology table.
C5_FixedTopology ==
    \A p \in Procs :
        (Provisioned(p) /\ startBroker = EmptyBroker /\ AllSuccess(report[p]))
        => /\ exchanges = TableExchanges
           /\ queues = TableQueues
           /\ bindings = TableBindings
           /\ Cardinality(exchanges) = 3
           /\ Cardinality(queues) = 7
           /\ Cardinality(bindings) = 7
           /\ \A q \in queues :
                q.name \in PriorityNames => Cardinality(q.arguments) = 6
           /\ [exchange |-> "priority-exchange", queue |-> "anomaly-queue",
               routing_key |-> "anomaly.detected"] \notin bindings

\* C5 witness: a failure-free run from an empty broker has exited with 0.
C5_Witness ==
    /\ pc[1] = "exited"
    /\ exitCode[1] = 0
    /\ startBroker = EmptyBroker
    /\ AllSuccess(report[1])

\* C6: Routing classification.  For every name the exchange chosen is one of
\* the two, and it is anomaly-exchange exactly when the seven characters
\* a-n-o-m-a-l-y occur in the name consecutively, in lower case, at some
\* position; the six configured names go to priority-exchange except
\* anomaly-queue.
C6_Classification ==
    /\ cexchange # "none"
         => /\ cexchange \in {"anomaly-exchange", "priority-exchange"}
            /\ cexchange = "anomaly-exchange"
                 <=> \E k \in 1..Len(cname) :
                        /\ k + 6 <= Len(cname)
                        /\ SubSeq(cname, k, k + 6) = <<"a","n","o","m","a","l","y">>
    /\ \A n \in PriorityNames :
         ClassifyQueue(n) = IF n = "anomaly-queue" THEN "anomaly-exchange"
                            ELSE "priority-exchange"

\* C6 witness: a name that holds the word after its first character was
\* classified as an anomaly queue.
C6_Witness ==
    /\ cexchange = "anomaly-exchange"
    /\ Len(cname) > 7
    /\ SubSeq(cname, 1, 7) # <<"a","n","o","m","a","l","y">>

\* C7: Exit code.  A process that has exited has code 0 or 1; the code is 0
\* exactly when the wait reported ready and main() reached and completed its
\* connection.close(), which it does only after every provisioning and
\* verification stage was entered; failed declare or bind calls and missing
\* verification results do not change that, and an exhausted wait or a
\* failure to open the connection or channel gives 1.
C7_ExitCode ==
    \A p \in Procs :
        /\ pc[p] \notin {"exited", "off"} => exitCode[p] = NoExit
        /\ pc[p] = "exited"
             => /\ exitCode[p] \in {0, 1}
                /\ exitCode[p] = 0 <=> (waitResult[p] = "ready" /\ conn[p] = "closed")
                /\ exitCode[p] = 0
                     => /\ \A e \in ExchangeNames : Calls(p, "exchange_declare", e) # {}
                        /\ \A q \in AllQueueNames : Calls(p, "queue_declare", q) # {}
                        /\ Calls(p, "passive", "") # {}
                /\ (waitResult[p] = "exhausted" \/ log[p] = <<>>) => exitCode[p] = 1

\* C7 witness: exit code 0 after a run in which resources failed and the
\* verification found nothing.
C7_Witness ==
    /\ pc[1] = "exited"
    /\ exitCode[1] = 0
    /\ \E r \in Resources : report[1][r] = "fail"
    /\ ~AllPresent(vstatus[1])

\* C8: Verification completeness.  Once verify_setup has returned, each of
\* the seven queue names has a status, and the status is OK exactly for the
\* queues the broker holds.
C8_VerificationComplete ==
    \A p \in Procs :
        Verified(p)
        => \A q \in AllQueueNames :
             /\ vstatus[p][q] \in {"OK", "BULUNAMADI"}
             /\ vstatus[p][q] = "OK" <=> QueueExists(queues, q)

\* C9: The dead-letter queue.  In every run dlq-queue is declared
\* (non-passively) at most once, and exactly once in a run that went through
\* provisioning; the only bind call naming it and the only binding it has on
\* the broker is to dlq-exchange under the routing key failed.
C9_DlqDeclaredOnce ==
    \A p \in Procs :
        /\ Cardinality(Calls(p, "queue_declare", "dlq-queue")) <= 1
        /\ Provisioned(p) => Cardinality(Calls(p, "queue_declare", "dlq-queue")) = 1
        /\ Cardinality(Calls(p, "queue_bind", "dlq-queue")) <= 1
        /\ \A k \in Calls(p, "queue_bind", "dlq-queue") :
             log[p][k].exchange = "dlq-exchange" /\ log[p][k].key = "failed"
        /\ \A b \in bindings :
             b.queue = "dlq-queue"
               => b = [exchange |-> "dlq-exchange", queue |-> "dlq-queue",
                       routing_key |-> "failed"]

\* C9 witness: provisioning is over, the six priority queues on the broker
\* all name the dead-letter exchange, and dlq-queue is bound.
C9_Witness ==
    /\ Provisioned(1)
    /\ Cardinality({ q \in queues : <<"x-dead-letter-exchange", "dlq-exchange">> \in q.arguments }) = 6
    /\ \E b \in bindings : b.queue = "dlq-queue"

\* C10: Concurrent instances.  With two instances running against the same
\* broker, no declare or bind call of either is answered with an error, each
\* instance reports every resource as created, and once both are through
\* provisioning the broker holds exactly the topology a single run produces.
C10_ConcurrentSafe ==
    /\ \A p \in Procs : \A k \in 1..Len(log[p]) :
         log[p][k].op \in {"exchange_declare", "queue_declare", "queue_bind"}
           => log[p][k].out = "ok"
    /\ \A p \in Procs : Provisioned(p) => AllSuccess(report[p])
    /\ (\A p \in Procs : Provisioned(p))
         => Broker = <<TableExchanges, TableQueues, TableBindings>>

\* C10 witness: both instances have declared the same priority queue and
\* neither has bound it yet.
C10_Witness ==
    /\ pc[1] = "pq_bind"
    /\ pc[2] = "pq_bind"
    /\ i[1] = i[2]

\* C11: The Verifier is non-mutating.  Every step taken while a process is
\* inside verify_setup, whatever its lookups return, leaves the broker's
\* exchanges, queues (with their arguments) and bindings as they were.
C11_VerifierNonMutating ==
    [][\A p \in Procs :
          (pc[p] \in {"verify_tmp", "verify_pq", "verify_dlq"}) => Broker' = Broker]_vars

\* C11 witness: verify_setup has made its lookups and returned while a
\* configured queue is missing on the broker.
C11_Witness ==
    /\ pc[1] = "close"
    /\ Calls(1, "passive", "") # {}
    /\ \E q \in AllQueueNames : ~QueueExists(queues, q)

\* the exchange a queue (priority queue or dead-letter queue) is bound to
TargetExchange(q) == IF q = "dlq-queue" THEN "dlq-exchange" ELSE ClassifyQueue(q)

\* C12: Exchange-failure isolation.  In a run from an empty broker in which
\* the declare of exactly one exchange e was refused and nothing else went
\* wrong, once provisioning is over the other two exchanges are reported as
\* created and are on the broker, every queue whose exchange is e is reported
\* failed, and every queue of another exchange is reported as created, is on
\* the broker and is bound to its exchange.
C12_ExchangeFailureIsolation ==
    \A p \in Procs : \A e \in ExchangeNames :
        (/\ Provisioned(p)
         /\ startBroker = EmptyBroker
         /\ conn[p] # "lost"
         /\ faults = 1
         /\ \E k \in Calls(p, "exchange_declare", e) : log[p][k].out = "refused")
        => /\ report[p][e] = "fail"
           /\ \A x \in ExchangeNames \ {e} :
                report[p][x] = "ok" /\ ExchangeExists(exchanges, x)
           /\ \A q \in AllQueueNames :
                IF TargetExchange(q) = e
                THEN report[p][q] = "fail"
                ELSE /\ report[p][q] = "ok"
                     /\ QueueExists(queues, q)
                     /\ \E b \in bindings :
                          b.queue = q /\ b.exchange = TargetExchange(q)

\* the operations of the log entries of process p, the name for a queue call
IsExchangeCall(c) == c.op = "exchange_declare"
IsDlqCall(c) == c.op \in {"queue_declare", "queue_bind"} /\ c.name = "dlq-queue"
IsPriorityCall(c) == c.op \in {"queue_declare", "queue_bind"} /\ c.name \in PriorityNames
IsVerifyCall(c) == c.op = "passive"

\* the stage of main() a logged call belongs to, as a number
StageOf(c) ==
    IF IsExchangeCall(c) THEN 1
    ELSE IF IsDlqCall(c) THEN 2
    ELSE IF IsPriorityCall(c) THEN 3
    ELSE 4

\* C13: Stage order.  In the sequence of calls of a run the stages never go
\* backwards (exchanges, dead-letter queue, priority queues, verification),
\* so no stage is entered twice; the dead-letter queue is declared only after
\* all three exchange declares were attempted, a priority queue only after
\* the dead-letter declare was attempted (and its bind, if the declare
\* succeeded), verification starts only after the declare of every priority
\* queue was attempted (and the bind of each one declared), and no call is
\* issued twice.
C13_StageOrder ==
    \A p \in Procs :
        /\ \A j, k \in 1..Len(log[p]) :
             /\ j < k => StageOf(log[p][j]) <= StageOf(log[p][k])
             /\ j # k => <<log[p][j].op, log[p][j].name>> # <<log[p][k].op, log[p][k].name>>
        /\ \A k \in 1..Len(log[p]) :
             /\ IsDlqCall(log[p][k])
                  => \A e \in ExchangeNames :
                       \E j \in Calls(p, "exchange_declare", e) : j < k
             /\ IsPriorityCall(log[p][k])
                  => /\ \E j \in Calls(p, "queue_declare", "dlq-queue") :
                          /\ j < k
                          /\ log[p][j].out = "ok"
                               => \E b \in Calls(p, "queue_bind", "dlq-queue") : b < k
             /\ IsVerifyCall(log[p][k])
                  => \A q \in PriorityNames :
                       \E j \in Calls(p, "queue_declare", q) :
                          /\ j < k
                          /\ log[p][j].out = "ok"
                               => \E b \in Calls(p, "queue_bind", q) : b < k

\* C13 witness: a run has gone through all four stages and made every call.
C13_Witness ==
    /\ pc[1] = "close"
    /\ Len(log[1]) = 25
    /\ vstatus[1]["dlq-queue"] = "OK"

\* C13 as stated: as above, but with the bind of the dead-letter queue
\* attempted before any priority queue is declared, and all seventeen
\* provisioning calls attempted before verification starts, in every run.
C13_StageOrderEveryCall ==
    \A p \in Procs :
        /\ \A j, k \in 1..Len(log[p]) :
             /\ j < k => StageOf(log[p][j]) <= StageOf(log[p][k])
             /\ j # k => <<log[p][j].op, log[p][j].name>> # <<log[p][k].op, log[p][k].name>>
        /\ \A k \in 1..Len(log[p]) :
             /\ IsDlqCall(log[p][k])
                  => \A e \in ExchangeNames :
                       \E j \in Calls(p, "exchange_declare", e) : j < k
             /\ IsPriorityCall(log[p][k])
                  => /\ \E j \in Calls(p, "queue_declare", "dlq-queue") : j < k
                     /\ \E j \in Calls(p, "queue_bind", "dlq-queue") : j < k
             /\ IsVerifyCall(log[p][k])
                  => \A q \in AllQueueNames :
                       /\ \E j \in Calls(p, "queue_declare", q) : j < k
                       /\ \E j \in Calls(p, "queue_bind", q) : j < k

\* position of a priority queue in the loop of setup_priority_queues
QueueIndex(q) == CHOOSE n \in 1..Len(QueueOrder) : QueueOrder[n] = q

\* C14 as stated: a bind call for a priority queue is issued only after the
\* declare of every one of the six priority queues was attempted.
C14_DeclareAllBeforeBind ==
    \A p \in Procs : \A k \in 1..Len(log[p]) :
        (log[p][k].op = "queue_bind" /\ log[p][k].name \in PriorityNames)
        => \A q \in PriorityNames :
             \E j \in Calls(p, "queue_declare", q) : j < k

\* C14, amended: the bind call of a priority queue directly follows the
\* successful declare of that same queue, and the queues are taken in the
\* order of the configuration, each declared (and bound) before the next one
\* is declared.
C14_DeclareThenBindPerQueue ==
    \A p \in Procs : \A k \in 1..Len(log[p]) :
        /\ (log[p][k].op = "queue_bind" /\ log[p][k].name \in PriorityNames)
             => /\ k > 1
                /\ log[p][k - 1].op = "queue_declare"
                /\ log[p][k - 1].name = log[p][k].name
                /\ log[p][k - 1].out = "ok"
        /\ (log[p][k].op = "queue_declare" /\ log[p][k].name \in PriorityNames)
             => \A j \in 1..(k - 1) :
                  IsPriorityCall(log[p][j])
                    => QueueIndex(log[p][j].name) < QueueIndex(log[p][k].name)

\* C14 witness: the first priority queue is bound on the broker while the
\* second has not been declared.
C14_Witness ==
    /\ pc[1] = "pq_declare"
    /\ i[1] = 2
    /\ \E b \in bindings : b.queue = "critical-priority-queue"
    /\ ~QueueExists(queues, "high-priority-queue")

\* C15: Bindings only for declared queues.  Every bind call of a run, for a
\* priority queue or the dead-letter queue, comes after a declare call of
\* that queue in the same run that succeeded, and a queue whose declare
\* failed has no bind call in that run.
C15_BindOnlyDeclared ==
    \A p \in Procs : \A k \in 1..Len(log[p]) :
        /\ log[p][k].op = "queue_bind"
             => \E j \in Calls(p, "queue_declare", log[p][k].name) :
                  j < k /\ log[p][j].out = "ok"
        /\ (log[p][k].op = "queue_declare" /\ log[p][k].out # "ok")
             => Calls(p, "queue_bind", log[p][k].name) = {}

\* C15 witness: provisioning is over, one queue was bound and the declare of
\* another failed.
C15_Witness ==
    /\ Provisioned(1)
    /\ \E k \in 1..Len(log[1]) : log[1][k].op = "queue_bind" /\ log[1][k].out = "ok"
    /\ \E k \in 1..Len(log[1]) : log[1][k].op = "queue_declare" /\ log[1][k].out # "ok"

\* C16: Connection drop.  Once the connection of a run is lost, the run makes
\* no further declare, bind or passive call, and the broker keeps exactly the
\* resources it had at the drop.
C16_DropEndsRun ==
    [][\A p \in Procs :
          conn[p] = "lost" => (log'[p] = log[p] /\ Broker' = Broker)]_vars

\* the queue record and the binding the configuration asks for
ConfiguredQueue(q) ==
    IF q = DLQ_QUEUE.name
    THEN QueueRecord(q, DLQ_QUEUE.durable, NoArguments)
    ELSE QueueRecord(q, TRUE, Arguments(PRIORITY_QUEUES[q]))

ConfiguredBinding(q) ==
    IF q = DLQ_QUEUE.name
    THEN BindingRecord("dlq-exchange", q, DLQ_QUEUE.routing_key)
    ELSE BindingRecord(TargetExchange(q), q, PRIORITY_QUEUES[q].routing_key)

\* C17: Soundness of the reported outcome.  A queue (priority or dead-letter)
\* that a run reports as created is on the broker with the configured
\* arguments and bound to its exchange under its routing key, its declare and
\* its bind call both succeeded in that run, and no call for it failed.
C17_ReportedSuccessSound ==
    \A p \in Procs : \A q \in AllQueueNames :
        report[p][q] = "ok"
        => /\ ConfiguredQueue(q) \in queues
           /\ ConfiguredBinding(q) \in bindings
           /\ \E k \in Calls(p, "queue_declare", q) : log[p][k].out = "ok"
           /\ \E k \in Calls(p, "queue_bind", q) : log[p][k].out = "ok"
           /\ \A k \in 1..Len(log[p]) :
                 (log[p][k].name = q /\ log[p][k].op \in {"queue_declare", "queue_bind"})
                 => log[p][k].out = "ok"

\* C17 witness: provisioning is over with one queue reported as created and
\* another, whose bind call was made and failed, reported as failed.
C17_Witness ==
    /\ Provisioned(1)
    /\ \E q \in AllQueueNames : report[1][q] = "ok"
    /\ \E q \in AllQueueNames :
          /\ report[1][q] = "fail"
          /\ \E k \in Calls(1, "queue_bind", q) : log[1][k].out # "ok"

\* C18: Termination.  When every broker call returns, a started run ends with
\* exit code 0 or 1; it never makes more than MaxAttempts probes, and it
\* makes each exchange declaration, each queue declaration and each binding
\* at most once.
C18_Termination ==
    /\ \A p \in Procs :
          (pc[p] # "off") ~> (pc[p] = "exited" /\ exitCode[p] \in {0, 1})
    /\ [](\A p \in Procs :
            /\ probes[p] <= MaxAttempts
            /\ \A op \in {"exchange_declare", "queue_declare", "queue_bind"} :
                 \A r \in Resources : Cardinality(Calls(p, op, r)) <= 1)

\* C18 witness: a run that made every one of its calls has ended.
C18_Witness ==
    /\ pc[1] = "exited"
    /\ exitCode[1] \in {0, 1}
    /\ \A q \in AllQueueNames :
          Calls(1, "queue_declare", q) # {} /\ Calls(1, "queue_bind", q) # {}
    /\ \A e \in ExchangeNames : Calls(1, "exchange_declare", e) # {}

\* C19: Connection discipline.  A process never holds more than one open
\* broker connection, and holds none once it has exited, with either exit
\* code.
C19_ConnectionDiscipline ==
    \A p \in Procs :
        /\ openConns[p] <= 1
        /\ pc[p] = "exited" => openConns[p] = 0

====
